---- MODULE Spec2Model ----
(***************************************************************************)
(* The human-gated workflow orchestrator of dashboard/server.py, its        *)
(* ConnectionManager, and the spec store and the confidence score of        *)
(* agent/user_story_agent.py, each with a specification of its own.         *)
(*                                                                         *)
(* The program runs on one asyncio event loop.  A coroutine is cut at its  *)
(* suspension points and the code between two of them is one atomic        *)
(* action.  Every `await manager.broadcast(...)` is a suspension point, in *)
(* run_workflow and in the handlers of websocket_endpoint: send_log        *)
(* appends its entry only when its broadcast has returned, and             *)
(* update_step writes state.step_data before its broadcast.  The           *)
(* asyncio.sleep of steps 7 to 10 follows the broadcast of update_step     *)
(* with no statement between them and is the same suspension point.  The   *)
(* calls of the external services inside a step are synchronous.  A task   *)
(* made runnable by the program itself (asyncio.create_task, Event.set) is *)
(* queued in `ready` and runs in FIFO order, as call_soon does; a          *)
(* coroutine suspended in a broadcast resumes at any time.                 *)
(***************************************************************************)
EXTENDS Integers, Sequences, FiniteSets, TLC

(* ---------------------------------------------------------------- bounds *)
\* run_workflow tasks alive at the same time
MaxTasks == 2
\* entries of state.activity_log, those of the send_log calls under way included
MaxLog == 5
\* handlers of websocket_endpoint suspended in send_log at the same time
MaxHandlers == 1
\* WebSocket connections made to /ws
MaxConns == 2
\* calls of manager.broadcast
MaxCalls == 2
\* spec_id values that create_draft_spec draws and requests name
MaxSpecs == 3
\* stories passed to _calculate_confidence
MaxStories == 2
\* length of a context string returned by the MCP server
MaxContext == 1
\* responses kept in the history
MaxResponses == 2
\* entries of state.activity_log in the model of the activity log
MaxLogged == 52

(* ------------------------------------------------------ program constants *)
\* `while state.workflow_running and state.current_step <= 10`
NumSteps == 10
\* `if len(req.requirement) < 50`
MinRequirementLen == 50

\* message.get("stepId") of a restart_step message that carries no stepId
NoneStep == -1

Tasks == 1..MaxTasks
Steps == 1..NumSteps

\* A requirement text is represented by its length; "" is the initial value.
EmptyRequirement == 0
RequirementInputs == {MinRequirementLen - 1, MinRequirementLen}

\* stepId values of restart_step messages: none, below the range, the first
\* step, the step that calls add_modified_file, the last step, above the
\* range
StepIdInputs == {NoneStep, 0, 1, 8, NumSteps, NumSteps + 1}

NoData == 0

VARIABLES
    workflow_running,     \* state.workflow_running
    paused,               \* state.paused
    confirmation_event,   \* state.confirmation_event: TRUE when set
    requirement,          \* state.requirement
    activity_log,         \* state.activity_log
    modified_files,       \* state.modified_files
    current_step,         \* state.current_step
    step_data,            \* state.step_data
    tasks,                \* the run_workflow tasks: the await each is suspended in,
                          \* step_id, requirement, the level of the send_log it is
                          \* inside, and the broadcasts the body of the step has made
    ready,                \* tasks scheduled by create_task / Event.set, FIFO
    waiters,              \* tasks blocked in confirmation_event.wait(), in order
    logging,              \* per level, the handlers of websocket_endpoint suspended
                          \* in the broadcast of send_log
    sent,                 \* the message broadcast by the last action, if any
    last_request          \* history: the last request received, with the reply to a
                          \* submission, whether a confirm_step found the workflow
                          \* idle or a loop inside the broadcast of its confirmation
                          \* request, whether a stop_workflow found a loop
                          \* blocked in the gate or executing a step, and whether
                          \* a modify_step found a loop blocked in the gate

vars == <<workflow_running, paused, confirmation_event, requirement, activity_log,
          modified_files, current_step, step_data, tasks, ready, waiters, logging,
          sent, last_request>>

\* The ConnectionManager of dashboard/server.py.
VARIABLES
    active_connections,   \* manager.active_connections, a list
    peer,                 \* per WebSocket: "new", "open", "closed" (send_json raises) or
                          \* "gone" (websocket_endpoint has ended) or "ValueError"
                          \* (websocket_endpoint has ended with this exception)
    calls,                \* the calls of manager.broadcast: position of the list
                          \* iterator, the local list `disconnected`, and as history
                          \* whether the list is as it was at the call and which
                          \* connections, registered ever since the call, the
                          \* iterator has not yielded
    received              \* per WebSocket whose websocket_endpoint has not ended: the
                          \* messages sent to it, in order

mvars == <<active_connections, peer, calls, received>>

\* The spec store of agent/user_story_agent.py.
VARIABLES
    specs,                \* the files of DATA_DIR, by spec_id
    agent_result          \* history: the last call of the agent and its outcome

avars == <<specs, agent_result>>

\* The responses of UserStoryAgent.transform_to_user_stories.
VARIABLES
    responses             \* history: the responses returned so far

cvars == <<responses>>

\* The replies of GET /api/activity-log.
VARIABLES
    logs_reply            \* the "logs" of the last reply of get_activity_log

qvars == <<logs_reply>>

\* the state the activity log and its query work on
lvars == <<activity_log, logging, sent, logs_reply>>

(* -------------------------------------------------------------- messages *)
Msg(type, stepId, status) == [type |-> type, stepId |-> stepId, status |-> status]
LogMsg(level) == Msg("log", 0, level)
StepUpdate(stepId, status) == Msg("step_update", stepId, status)
\* the message of add_modified_file for the n-th file of step 8
FileModified(n) == Msg("file_modified", n, "")
\* the per-step "awaiting confirmation" message of wait_for_confirmation
ConfirmationRequest(stepId) == Msg("confirmation_request", stepId, "")
WorkflowError == Msg("workflow_error", 0, "")
WorkflowComplete == Msg("workflow_complete", 0, "")

\* the levels send_log is called with
Levels == {"info", "success", "warning"}
\* the levels the handlers of websocket_endpoint call send_log with
HandlerLevels == {"info", "warning"}

\* an entry of the activity log: send_log takes the timestamp when it appends,
\* so the timestamps follow the order of the entries; the message text is not
\* represented
LogEntry(level, timestamp) == [level |-> level, timestamp |-> timestamp]

\* `state.activity_log.append({...})` of send_log
Logged(log, level) == Append(log, LogEntry(level, Len(log) + 1))

\* the levels of the entries of a log
LevelsOf(log) == [i \in 1..Len(log) |-> log[i].level]

\* a run_workflow task: the await it is suspended in, the step_id and the
\* requirement of the execute_step it is in, the level of the send_log it
\* is suspended in ("" in any other await), and what the body of the step has
\* done so far
Task(pc, step, req, appending, body) ==
    [pc |-> pc, step_id |-> step, requirement |-> req, appending |-> appending,
     body |-> body]

NoTask == Task("none", 0, EmptyRequirement, "", <<>>)

\* update_step(5, "complete", ...) is the last statement of step 5; the other
\* steps end with a send_log
EndsWithLog(step) == step # 5

\* the files step 8 reports with add_modified_file
NumFiles == 3

\* What the body of a step does next, after `done`, the send_log calls (by
\* level) and the add_modified_file calls ("file") it has made between
\* update_step(k, "in-progress") and update_step(k, "complete"): a send_log of
\* a level, "file", "raise" when a call of an external service raises, "done"
\* when it reaches update_step(k, "complete").
\*   step 1: the FM reply is usable (success), or the fallback is announced
\*           (info) and then works (success), fails (warning) or raises;
\*   steps 2, 3: the service replies (success) or not (warning), or raises;
\*   steps 4, 6: nothing is logged, the service call can raise;
\*   step 5: the epic is logged (success), then the stories (success); creating
\*           the epic or a story can raise;
\*   steps 7, 9, 10: nothing between the two updates;
\*   step 8: three add_modified_file calls.
NextOps(step, done) ==
    CASE step = 1 ->
             IF done = <<>> THEN {"success", "info"}
             ELSE IF done = <<"info">> THEN {"success", "warning", "raise"}
             ELSE {"done"}
      [] step \in {2, 3} ->
             IF done = <<>> THEN {"success", "warning", "raise"} ELSE {"done"}
      [] step \in {4, 6} ->
             {"done", "raise"}
      [] step = 5 ->
             IF Len(done) < 2 THEN {"success", "raise"} ELSE {"done"}
      [] step = 8 ->
             IF Len(done) < NumFiles THEN {"file"} ELSE {"done"}
      [] OTHER -> {"done"}

\* everything a body can do next
Ops == Levels \cup {"file", "raise", "done"}

(* ------------------------------------------------------------------ Init *)
Init ==
    /\ workflow_running = FALSE
    /\ paused = FALSE
    /\ confirmation_event = FALSE
    /\ requirement = EmptyRequirement
    /\ activity_log = <<>>
    /\ modified_files = <<>>
    /\ current_step = 0
    /\ step_data = [k \in Steps |-> NoData]
    /\ tasks = [t \in Tasks |-> NoTask]
    /\ ready = <<>>
    /\ waiters = <<>>
    /\ logging = [l \in HandlerLevels |-> 0]
    /\ sent = <<>>
    /\ last_request = "none"

(* --------------------------------------------------------------- helpers *)
Alive(t) == tasks[t].pc # "none"
AliveTasks == {t \in Tasks : Alive(t)}
FreeSlots == {t \in Tasks : ~Alive(t)}

\* the handlers suspended in send_log
Handlers == logging["info"] + logging["warning"]

\* the send_log calls that have broadcast and not appended yet
Appending == Cardinality({t \in Tasks : tasks[t].appending # ""}) + Handlers

\* room for n more send_log calls, so that every call under way can append
LogHasRoom(n) == Len(activity_log) + Appending + n <= MaxLog

\* the task is inside execute_step
Executing(t) ==
    tasks[t].pc \in {"step_log", "in_progress", "body_log", "file_modified",
                     "complete", "closing_log"}

Range(q) == {q[i] : i \in 1..Len(q)}

\* asyncio.Event.set(): the first set() after a clear() resolves the future of
\* every task blocked in wait(), which schedules the tasks in waiting order
SetEvent ==
    /\ confirmation_event' = TRUE
    /\ IF confirmation_event
       THEN UNCHANGED <<tasks, ready, waiters>>
       ELSE /\ tasks' = [t \in Tasks |->
                            IF t \in Range(waiters)
                            THEN [tasks[t] EXCEPT !.pc = "woken"]
                            ELSE tasks[t]]
            /\ ready' = ready \o waiters
            /\ waiters' = <<>>

Flags(run, pau, cs) ==
    /\ workflow_running' = run
    /\ paused' = pau
    /\ current_step' = cs

\* A finished task leaves the table: the tasks created after it move down one
\* index, so the live tasks are always 1..n in creation order.
Shift(q, t) == [i \in 1..Len(q) |-> IF q[i] > t THEN q[i] - 1 ELSE q[i]]

TaskEnds(t, rdy) ==
    /\ tasks' = [i \in Tasks |-> IF i < t THEN tasks[i]
                                 ELSE IF i < MaxTasks THEN tasks[i + 1] ELSE NoTask]
    /\ ready' = Shift(rdy, t)
    /\ waiters' = Shift(waiters, t)

\* the task calls manager.broadcast(msg) and is suspended in it
Suspend(t, task, rdy, msg) ==
    /\ tasks' = [tasks EXCEPT ![t] = task]
    /\ ready' = rdy
    /\ sent' = <<msg>>
    /\ UNCHANGED waiters

\* the log when the task resumes: inside send_log, the entry is appended
Resumed(t) ==
    IF tasks[t].appending # "" THEN Logged(activity_log, tasks[t].appending)
    ELSE activity_log

(* ----------------------------------------------------------- run_workflow *)
\* `finally: if not state.paused: state.workflow_running = False`, and the
\* task ends
Finally(t, run, pau, cs, log, rdy) ==
    /\ TaskEnds(t, rdy)
    /\ Flags(IF pau THEN run ELSE FALSE, pau, cs)
    /\ activity_log' = log
    /\ sent' = <<>>

\* `except Exception as e: state.workflow_running = False` around the loop
FatalError(t, pau, cs, log, rdy) == Finally(t, FALSE, pau, cs, log, rdy)

\* the code after the while loop: `if state.current_step > 10:` broadcasts
\* workflow_complete; comparing None with 10 raises TypeError
AfterLoop(t, run, pau, cs, log, rdy) ==
    IF cs = NoneStep
    THEN FatalError(t, pau, cs, log, rdy)
    ELSE IF cs > NumSteps
         THEN /\ Suspend(t, Task("complete_sent", 0, EmptyRequirement, "", <<>>), rdy,
                         WorkflowComplete)
              /\ Flags(run, pau, cs)
              /\ activity_log' = log
         ELSE Finally(t, run, pau, cs, log, rdy)

\* wait_for_confirmation up to the broadcast of its request
RequestConfirmation(t, step, req, rdy) ==
    Suspend(t, Task("confirmation_sent", step, req, "", <<>>), rdy,
            ConfirmationRequest(step))

\* execute_step(step_id) up to its first broadcast, that of the send_log
\* every step begins with.  A step id outside 1..10 matches no branch of
\* execute_step, which returns None at once, and wait_for_confirmation
\* broadcasts its request.
ExecuteStep(t, step, req, rdy) ==
    IF step \in Steps
    THEN /\ LogHasRoom(1)
         /\ Suspend(t, Task("step_log", step, req, "info", <<>>), rdy, LogMsg("info"))
    ELSE RequestConfirmation(t, step, req, rdy)

\* the loop condition and, when it holds, the call of execute_step
WhileTop(t, run, pau, cs, req, log, rdy) ==
    IF run /\ cs = NoneStep
    THEN FatalError(t, pau, cs, log, rdy)
    ELSE IF run /\ cs <= NumSteps
         THEN /\ Flags(run, pau, cs)
              /\ activity_log' = log
              /\ ExecuteStep(t, cs, req, rdy)
         ELSE AfterLoop(t, run, pau, cs, log, rdy)

\* `if state.current_step == 0: state.current_step = 1`
FirstStep(cs) == IF cs = 0 THEN 1 ELSE cs

\* run_workflow from its first statement to the first suspension
Start(t) ==
    /\ ready # <<>> /\ Head(ready) = t
    /\ tasks[t].pc = "created"
    /\ requirement' = tasks[t].requirement
    /\ WhileTop(t, TRUE, FALSE, FirstStep(current_step), tasks[t].requirement,
                activity_log, Tail(ready))
    /\ UNCHANGED <<last_request, confirmation_event, step_data, modified_files, logging>>

\* the first send_log of the step returns: its entry is appended, and
\* update_step(k, "in-progress") broadcasts
InProgress(t) ==
    /\ tasks[t].pc = "step_log"
    /\ activity_log' = Resumed(t)
    /\ Suspend(t, Task("in_progress", tasks[t].step_id, tasks[t].requirement, "", <<>>),
               ready, StepUpdate(tasks[t].step_id, "in-progress"))
    /\ UNCHANGED <<last_request, workflow_running, paused, confirmation_event, requirement,
                   current_step, step_data, modified_files, logging>>

\* the result a step computes from the requirement it read on entry
StepResult(step, req) == req

\* update_step without the assignment to state.step_data
StoreData_Dropped(step, data) == step_data

\* update_step: `if data: state.step_data[step_id] = data`
StoreData(step, data) ==
    IF data # NoData THEN [step_data EXCEPT ![step] = data] ELSE step_data

\* state.modified_files when the task resumes: inside add_modified_file, the
\* file is appended
FilesResumed(t) ==
    IF tasks[t].pc = "file_modified"
    THEN Append(modified_files, Len(tasks[t].body))
    ELSE modified_files

\* The body of the step between two of its broadcasts: the broadcast it was
\* suspended in returns (send_log and add_modified_file append), and the body
\* runs to its next broadcast: that of a send_log, of an add_modified_file,
\* of update_step(k, "complete", data) when the body is done, which has
\* written state.step_data, or of update_step(k, "error") in the except
\* branch of run_workflow when a call raises.
Exec(t, op) ==
    /\ tasks[t].pc \in {"in_progress", "body_log", "file_modified"}
    /\ op \in NextOps(tasks[t].step_id, tasks[t].body)
    /\ activity_log' = Resumed(t)
    /\ modified_files' = FilesResumed(t)
    /\ LET k == tasks[t].step_id
           req == tasks[t].requirement
           done == Append(tasks[t].body, op)
       IN CASE op = "done" ->
                   /\ step_data' = StoreData(k, StepResult(k, req))
                   /\ Suspend(t, Task("complete", k, req, "", <<>>), ready,
                              StepUpdate(k, "complete"))
            [] op = "raise" ->
                   /\ Suspend(t, Task("error_update", k, req, "", <<>>), ready,
                              StepUpdate(k, "error"))
                   /\ UNCHANGED step_data
            [] op = "file" ->
                   /\ Suspend(t, Task("file_modified", k, req, "", done), ready,
                              FileModified(Len(done)))
                   /\ UNCHANGED step_data
            [] OTHER ->
                   /\ LogHasRoom(1)
                   /\ Suspend(t, Task("body_log", k, req, op, done), ready, LogMsg(op))
                   /\ UNCHANGED step_data
    /\ UNCHANGED <<last_request, workflow_running, paused, confirmation_event, requirement,
                   current_step, logging>>

\* the body of the step calls send_log
ExecLog(t, level) == level \in Levels /\ Exec(t, level)

\* the body of step 8 calls add_modified_file
ExecFile(t) == Exec(t, "file")

\* the body of the step succeeds: update_step(k, "complete", data=...)
ExecComplete(t) == Exec(t, "done")

\* the body of the step raises: update_step(step_id, "error", ...)
ExecRaise(t) == Exec(t, "raise")

\* update_step(k, "complete") returns: the closing send_log of the step
\* broadcasts, or, in step 5, execute_step returns and wait_for_confirmation
\* broadcasts its request
Closing(t) ==
    /\ tasks[t].pc = "complete"
    /\ IF EndsWithLog(tasks[t].step_id)
       THEN /\ LogHasRoom(1)
            /\ Suspend(t, Task("closing_log", tasks[t].step_id, tasks[t].requirement,
                               "success", <<>>), ready, LogMsg("success"))
       ELSE RequestConfirmation(t, tasks[t].step_id, tasks[t].requirement, ready)
    /\ UNCHANGED <<last_request, workflow_running, paused, confirmation_event, requirement,
                   activity_log, current_step, step_data, modified_files, logging>>

\* the closing send_log returns: its entry is appended, execute_step
\* returns, and wait_for_confirmation broadcasts its request
Return(t) ==
    /\ tasks[t].pc = "closing_log"
    /\ activity_log' = Resumed(t)
    /\ RequestConfirmation(t, tasks[t].step_id, tasks[t].requirement, ready)
    /\ UNCHANGED <<last_request, workflow_running, paused, confirmation_event, requirement,
                   current_step, step_data, modified_files, logging>>

\* update_step(step_id, "error") returns: the workflow_error broadcast
ErrorBroadcast(t) ==
    /\ tasks[t].pc = "error_update"
    /\ Suspend(t, Task("error_sent", tasks[t].step_id, tasks[t].requirement, "", <<>>),
               ready, WorkflowError)
    /\ UNCHANGED <<last_request, workflow_running, paused, confirmation_event, requirement,
                   activity_log, current_step, step_data, modified_files, logging>>

\* the except branch without `state.workflow_running = False; break`: the
\* loop goes on
ErrorBreak_NoBreak(t) ==
    /\ tasks[t].pc = "error_sent"
    /\ WhileTop(t, workflow_running, paused, current_step, requirement, activity_log, ready)
    /\ UNCHANGED <<last_request, confirmation_event, requirement, step_data,
                   modified_files, logging>>

\* the workflow_error broadcast returns:
\* `state.workflow_running = False; break`
ErrorBreak(t) ==
    /\ tasks[t].pc = "error_sent"
    /\ AfterLoop(t, FALSE, paused, current_step, activity_log, ready)
    /\ UNCHANGED <<last_request, confirmation_event, requirement, step_data,
                   modified_files, logging>>

\* wait_for_confirmation without the two checks after wait()
Cancelled_Never == FALSE

\* wait_for_confirmation raises CancelledError after the wake-up:
\* `if not state.workflow_running: raise CancelledError` and
\* `if state.paused: raise CancelledError`
Cancelled == ~workflow_running \/ paused

\* `if state.current_step == step_id: state.current_step += 1`
NextStep(cs, step) == IF cs = step THEN cs + 1 ELSE cs

\* wait_for_confirmation after confirmation_event.wait() has returned, and
\* the loop after it
Resume(t, rdy) ==
    IF Cancelled
    THEN AfterLoop(t, workflow_running, paused, current_step, activity_log, rdy)
    ELSE WhileTop(t, workflow_running, paused,
                  NextStep(current_step, tasks[t].step_id), requirement, activity_log, rdy)

\* the value of the event after `state.confirmation_event.clear()`
Cleared == FALSE

\* the broadcast of the confirmation request returns:
\* `state.confirmation_event.clear(); await state.confirmation_event.wait()`:
\* wait() returns at once when the event is set and blocks otherwise
WaitForConfirmation(t) ==
    /\ tasks[t].pc = "confirmation_sent"
    /\ confirmation_event' = Cleared
    /\ IF Cleared
       THEN Resume(t, ready)
       ELSE /\ tasks' = [tasks EXCEPT ![t].pc = "waiting"]
            /\ waiters' = Append(waiters, t)
            /\ sent' = <<>>
            /\ UNCHANGED <<workflow_running, paused, activity_log, current_step, ready>>
    /\ UNCHANGED <<last_request, requirement, step_data, modified_files, logging>>

\* the task resumes from confirmation_event.wait()
Wake(t) ==
    /\ ready # <<>> /\ Head(ready) = t
    /\ tasks[t].pc = "woken"
    /\ Resume(t, Tail(ready))
    /\ UNCHANGED <<last_request, confirmation_event, requirement, step_data,
                   modified_files, logging>>

\* the workflow_complete broadcast returns: the send_log of the completion
\* broadcasts
CompleteLog(t) ==
    /\ tasks[t].pc = "complete_sent"
    /\ LogHasRoom(1)
    /\ Suspend(t, Task("complete_log", 0, EmptyRequirement, "success", <<>>), ready,
               LogMsg("success"))
    /\ UNCHANGED <<last_request, workflow_running, paused, confirmation_event, requirement,
                   activity_log, current_step, step_data, modified_files, logging>>

\* the completion without `state.current_step = 0`
CompleteReset_NoReset(t) ==
    /\ tasks[t].pc = "complete_log"
    /\ Finally(t, FALSE, paused, current_step, Resumed(t), ready)
    /\ UNCHANGED <<last_request, confirmation_event, requirement, step_data,
                   modified_files, logging>>

\* the send_log of the completion returns: its entry is appended, then
\* `state.workflow_running = False; state.current_step = 0`, and the finally
\* clause
CompleteReset(t) ==
    /\ tasks[t].pc = "complete_log"
    /\ Finally(t, FALSE, paused, 0, Resumed(t), ready)
    /\ UNCHANGED <<last_request, confirmation_event, requirement, step_data,
                   modified_files, logging>>

(* ------------------------------------------------------ submit_requirement *)
\* submit_requirement without the check of workflow_running
AlreadyRunning_Unchecked == FALSE

\* `if state.workflow_running: raise HTTPException(400, "Workflow already running")`
AlreadyRunning == workflow_running

\* submit_requirement without the check of the length
TooShort_Unchecked(req) == FALSE

\* `if len(req.requirement) < 50: raise HTTPException(400, "Requirement too short")`
TooShort(req) == req < MinRequirementLen

SubmitRequirement(req) ==
    /\ sent' = <<>>
    /\ IF AlreadyRunning
       THEN /\ last_request' = "submit:already_running"
            /\ UNCHANGED <<tasks, ready>>
       ELSE IF TooShort(req)
            THEN /\ last_request' = "submit:too_short"
                 /\ UNCHANGED <<tasks, ready>>
            ELSE /\ FreeSlots # {}
                 /\ LET t == CHOOSE x \in FreeSlots : \A y \in FreeSlots : x <= y
                    IN /\ tasks' = [tasks EXCEPT ![t] = Task("created", 0, req, "", <<>>)]
                       /\ ready' = Append(ready, t)
                 /\ last_request' = "submit:started"
    /\ UNCHANGED <<workflow_running, paused, confirmation_event, requirement,
                   activity_log, current_step, step_data, waiters, modified_files, logging>>

(* ------------------------------------------------------ websocket_endpoint *)
\* send_log called outside run_workflow, up to its broadcast, in which the
\* caller is suspended
send_log(level) ==
    /\ sent' = <<LogMsg(level)>>
    /\ logging' = [logging EXCEPT ![level] = @ + 1]
    /\ UNCHANGED activity_log

\* the broadcast of such a send_log returns: the entry is appended
send_log_returns(level) ==
    /\ logging[level] > 0
    /\ logging' = [logging EXCEPT ![level] = @ - 1]
    /\ activity_log' = Logged(activity_log, level)
    /\ sent' = <<>>

\* `await send_log(message, level)` of a handler up to its broadcast
SendLog(level) ==
    /\ LogHasRoom(1)
    /\ Handlers < MaxHandlers
    /\ send_log(level)

\* the send_log of a handler returns, and the handler goes back to
\* receive_text
SendLogReturns(level) ==
    /\ send_log_returns(level)
    /\ UNCHANGED <<last_request, workflow_running, paused, confirmation_event, requirement,
                   current_step, step_data, tasks, ready, waiters, modified_files>>

ConfirmStep ==
    /\ SetEvent
    /\ sent' = <<>>
    /\ last_request' = IF ~workflow_running THEN "confirm_step:idle"
                       ELSE IF \E t \in Tasks : tasks[t].pc = "confirmation_sent"
                            THEN "confirm_step:broadcasting"
                            ELSE "confirm_step"
    /\ UNCHANGED <<workflow_running, paused, requirement, activity_log,
                   current_step, step_data, modified_files, logging>>

\* stop_workflow without `state.workflow_running = False`
StoppedRunning_Kept == workflow_running

\* `state.workflow_running = False` of stop_workflow
StoppedRunning == FALSE

\* stop_workflow up to the broadcast of its send_log
StopWorkflow ==
    /\ Flags(StoppedRunning, TRUE, current_step)
    /\ SetEvent
    /\ SendLog("warning")
    /\ last_request' = IF waiters # <<>> THEN "stop_workflow:gate"
                       ELSE IF \E t \in Tasks : Executing(t)
                            THEN "stop_workflow:executing"
                            ELSE "stop_workflow"
    /\ UNCHANGED <<requirement, step_data, modified_files>>

\* restart_step up to the broadcast of its send_log
RestartStep(stepId) ==
    /\ Flags(TRUE, FALSE, stepId)
    /\ SetEvent
    /\ SendLog("info")
    /\ last_request' = "restart_step"
    /\ UNCHANGED <<requirement, step_data, modified_files>>

ModifyStep ==
    /\ Flags(FALSE, FALSE, current_step)
    /\ SetEvent
    /\ sent' = <<>>
    /\ last_request' = IF waiters # <<>> THEN "modify_step:gate" ELSE "modify_step"
    /\ UNCHANGED <<requirement, activity_log, step_data, modified_files, logging>>

(* ------------------------------------------------------ ConnectionManager *)
\* Every WebSocket object connects once; the objects are numbered in the order
\* in which they connect.  The calls of broadcast are numbered in the order in
\* which they are made, and call b sends message b.  A call is suspended in
\* each `await connection.send_json(message)`: the message is handed to the
\* connection when send_json is called, and the call resumes at any later time.
Conns == 1..MaxConns
Calls == 1..MaxCalls

NoCall == [pc |-> "idle", i |-> 0, disconnected |-> <<>>, undisturbed |-> TRUE,
           pending |-> {}]
Returned == [pc |-> "returned", i |-> 0, disconnected |-> <<>>, undisturbed |-> TRUE,
             pending |-> {}]

ManagerInit ==
    /\ active_connections = <<>>
    /\ peer = [c \in Conns |-> "new"]
    /\ calls = [b \in Calls |-> NoCall]
    /\ received = [c \in Conns |-> <<>>]

\* list.remove(connection); the list holds no connection twice
Remove(list, connection) == SelectSeq(list, LAMBDA x : x # connection)

\* the history of the calls under way when `removed` leave the list
StillThroughout(removed) ==
    [b \in Calls |-> IF calls[b].pc = "sending" /\ removed # {}
                     THEN [calls[b] EXCEPT !.pending = @ \ removed,
                                           !.undisturbed = FALSE]
                     ELSE calls[b]]

\* ConnectionManager.connect
Connect(c) ==
    /\ peer[c] = "new"
    /\ \A d \in Conns : d < c => peer[d] # "new"
    /\ peer' = [peer EXCEPT ![c] = "open"]
    /\ active_connections' = Append(active_connections, c)
    /\ calls' = [b \in Calls |-> IF calls[b].pc = "sending"
                                 THEN [calls[b] EXCEPT !.undisturbed = FALSE]
                                 ELSE calls[b]]
    /\ UNCHANGED received

\* the client of a connection goes away: from now on send_json raises
PeerCloses(c) ==
    /\ peer[c] = "open"
    /\ peer' = [peer EXCEPT ![c] = "closed"]
    /\ UNCHANGED <<active_connections, calls, received>>

\* how websocket_endpoint ends: `self.active_connections.remove(websocket)`
\* raises ValueError when the list does not hold the connection, inside the
\* except clause of the handler, which the exception leaves
HandlerEnd(c) ==
    IF c \in Range(active_connections) THEN "gone" ELSE "ValueError"

\* ConnectionManager.disconnect, called when websocket_endpoint ends: on
\* WebSocketDisconnect after the client went away, or on any other exception
\* of the handler.  remove raises ValueError when a broadcast has already
\* removed the connection, and the list stays as it is.
Disconnect(c) ==
    /\ peer[c] \in {"open", "closed"}
    /\ peer' = [peer EXCEPT ![c] = HandlerEnd(c)]
    /\ active_connections' = Remove(active_connections, c)
    /\ calls' = StillThroughout({c} \cap Range(active_connections))
    /\ received' = [received EXCEPT ![c] = <<>>]

\* send_json raises
SendFails(connection) == peer[connection] # "open"

Prune_None(list, disconnected) == list

\* `for connection in disconnected: if connection in self.active_connections:
\*  self.active_connections.remove(connection)`
Prune(list, disconnected) == SelectSeq(list, LAMBDA x : x \notin Range(disconnected))

\* One turn of `for connection in self.active_connections` in call b.  The
\* iterator of a list holds a position and reads the list as it is now: it
\* yields the element at position i, or ends the loop when the list has no
\* such element; after the loop the call removes the connections of
\* `disconnected` and returns.
Turn(b, i, disconnected, undisturbed, pending) ==
    IF i < Len(active_connections)
    THEN LET connection == active_connections[i + 1] IN
         /\ received' = IF SendFails(connection) THEN received
                        ELSE [received EXCEPT ![connection] = Append(@, b)]
         /\ calls' = [calls EXCEPT ![b] =
                [pc |-> "sending", i |-> i + 1,
                 disconnected |-> IF SendFails(connection)
                                  THEN Append(disconnected, connection)
                                  ELSE disconnected,
                 undisturbed |-> undisturbed, pending |-> pending \ {connection}]]
         /\ UNCHANGED active_connections
    ELSE /\ active_connections' = Prune(active_connections, disconnected)
         /\ calls' = [StillThroughout(Range(disconnected) \cap Range(active_connections))
                        EXCEPT ![b] = Returned]
         /\ UNCHANGED received

\* manager.broadcast(message) is called: up to the first send_json
Broadcast(b) ==
    /\ calls[b].pc = "idle"
    /\ \A a \in Calls : a < b => calls[a].pc # "idle"
    /\ Turn(b, 0, <<>>, TRUE, Range(active_connections))
    /\ UNCHANGED peer

\* a send_json of call b returns or raises: up to the next send_json, or to
\* the return of the call
SendReturns(b) ==
    /\ calls[b].pc = "sending"
    /\ Turn(b, calls[b].i, calls[b].disconnected, calls[b].undisturbed,
            calls[b].pending)
    /\ UNCHANGED peer

ManagerNext ==
    \/ \E c \in Conns : Connect(c) /\ UNCHANGED <<vars, avars, cvars, qvars>>
    \/ \E c \in Conns : PeerCloses(c) /\ UNCHANGED <<vars, avars, cvars, qvars>>
    \/ \E c \in Conns : Disconnect(c) /\ UNCHANGED <<vars, avars, cvars, qvars>>
    \/ \E b \in Calls : Broadcast(b) /\ UNCHANGED <<vars, avars, cvars, qvars>>
    \/ \E b \in Calls : SendReturns(b) /\ UNCHANGED <<vars, avars, cvars, qvars>>

(* ---------------------------------------------------------- UserStoryAgent *)
\* A stored spec is represented by its status and the number of its
\* generated_stories.  spec_id is the first 8 characters of a uuid4, a random
\* draw; get_spec and _store_spec read and write the file of a spec_id.
SpecIds == 1..MaxSpecs

\* get_spec returns None
NoSpec == [status |-> "none", generated_stories |-> 0]
\* a ProductSpec built by _generate_spec_content: the defaults of the dataclass
DraftSpec == [status |-> "draft", generated_stories |-> 0]

\* `for i, feature in enumerate(spec.key_features[:1], 1)`: key_features holds
\* five features or more
StoriesFromSpec == 1

AgentInit ==
    /\ specs = [spec_id \in SpecIds |-> NoSpec]
    /\ agent_result = [call |-> "none", spec_id |-> 0, outcome |-> "none"]

GetSpec(spec_id) == specs[spec_id]
StoreSpec(spec_id, spec) == [specs EXCEPT ![spec_id] = spec]

CreateDraftSpec(spec_id) ==
    /\ specs' = StoreSpec(spec_id, DraftSpec)
    /\ agent_result' = [call |-> "create_draft_spec", spec_id |-> spec_id,
                        outcome |-> "draft"]

ApproveSpec(spec_id) ==
    LET spec == GetSpec(spec_id) IN
    IF spec # NoSpec
    THEN /\ specs' = StoreSpec(spec_id, [spec EXCEPT !.status = "approved"])
         /\ agent_result' = [call |-> "approve_spec", spec_id |-> spec_id,
                             outcome |-> "approved"]
    ELSE /\ UNCHANGED specs
         /\ agent_result' = [call |-> "approve_spec", spec_id |-> spec_id,
                             outcome |-> "None"]

NotApproved_Unchecked(spec) == FALSE

\* `if spec.status != "approved"`
NotApproved(spec) == spec.status # "approved"

GenerateStoriesFromSpec(spec_id) ==
    LET spec == GetSpec(spec_id) IN
    IF spec = NoSpec
    THEN /\ UNCHANGED specs
         /\ agent_result' = [call |-> "generate_stories_from_spec",
                             spec_id |-> spec_id,
                             outcome |-> "ValueError: Spec not found"]
    ELSE IF NotApproved(spec)
    THEN /\ UNCHANGED specs
         /\ agent_result' = [call |-> "generate_stories_from_spec",
                             spec_id |-> spec_id,
                             outcome |-> "ValueError: Spec must be approved before generating stories"]
    ELSE /\ specs' = StoreSpec(spec_id,
                        [spec EXCEPT !.generated_stories = StoriesFromSpec])
         /\ agent_result' = [call |-> "generate_stories_from_spec",
                             spec_id |-> spec_id, outcome |-> "stories"]

AgentNext ==
    \/ \E spec_id \in SpecIds : CreateDraftSpec(spec_id) /\ UNCHANGED <<vars, mvars, cvars, qvars>>
    \/ \E spec_id \in SpecIds : ApproveSpec(spec_id) /\ UNCHANGED <<vars, mvars, cvars, qvars>>
    \/ \E spec_id \in SpecIds : GenerateStoriesFromSpec(spec_id) /\ UNCHANGED <<vars, mvars, cvars, qvars>>

(* -------------------------------------------------------------- confidence *)
\* A confidence is counted in hundredths: every sum that _calculate_confidence
\* can form (0.5, 0.65, 0.7, 0.8, 0.85, 1.0) is the float nearest to its
\* decimal, so the floats compare as the hundredths do.  A list of stories is
\* represented by its length and a context string by its length.
BaseConfidence == 50
StoryBonus == 20
RagBonusValue == 15
FinetunedBonusValue == 15
MaxConfidence == 100

EmptyContext == 0
Contexts == 0..MaxContext
\* _query_mcp_rag or _query_mcp_finetuned returns None
NoResult == -1
QueryResults == {NoResult} \cup Contexts

Min(a, b) == IF a <= b THEN a ELSE b

RagBonus_None(rag_context) == 0

\* `if rag_context: confidence += 0.15`
RagBonus(rag_context) == IF rag_context # EmptyContext THEN RagBonusValue ELSE 0

_calculate_confidence(stories, rag_context, finetuned_context) ==
    LET c0 == BaseConfidence
        c1 == IF stories > 0 THEN c0 + StoryBonus ELSE c0
        c2 == c1 + RagBonus(rag_context)
        c3 == IF finetuned_context # EmptyContext THEN c2 + FinetunedBonusValue ELSE c2
    IN  Min(c3, MaxConfidence)

\* _gather_context: the context of a query that was made and returned a result
Context(use, result) == IF use /\ result # NoResult THEN result ELSE EmptyContext

\* _generate_stories appends one story
GeneratedStories == 1

Response(stories, rag_context, finetuned_context) ==
    [stories |-> stories, rag_context |-> rag_context,
     finetuned_context |-> finetuned_context,
     confidence |-> _calculate_confidence(stories, rag_context, finetuned_context)]

ResponsesInit == responses = <<>>

TransformToUserStories(use_rag, use_finetuned, rag_result, ft_result) ==
    /\ Len(responses) < MaxResponses
    /\ responses' = Append(responses,
            Response(GeneratedStories, Context(use_rag, rag_result),
                     Context(use_finetuned, ft_result)))

\* _calculate_confidence called by itself
CalculateConfidence(stories, rag_context, finetuned_context) ==
    /\ Len(responses) < MaxResponses
    /\ responses' = Append(responses, Response(stories, rag_context, finetuned_context))

ConfidenceNext ==
    \/ \E use_rag \in BOOLEAN, use_finetuned \in BOOLEAN,
          rag_result \in QueryResults, ft_result \in QueryResults :
            TransformToUserStories(use_rag, use_finetuned, rag_result, ft_result)
            /\ UNCHANGED <<vars, mvars, avars, qvars>>
    \/ \E stories \in 0..MaxStories, rag_context \in Contexts,
          finetuned_context \in Contexts :
            CalculateConfidence(stories, rag_context, finetuned_context)
            /\ UNCHANGED <<vars, mvars, avars, qvars>>

(* ----------------------------------------------------------- activity log *)
\* The activity log by itself: calls of send_log with the default level,
\* and queries.
LogWindow == 50

\* no query was made yet
NoReply == <<LogEntry("none", 0)>>

LogInit == logs_reply = NoReply

\* Python's `lst[-k:]`: the elements from index max(len - k, 0) to the end
LastSlice(lst, k) ==
    LET start == IF Len(lst) - k > 0 THEN Len(lst) - k ELSE 0
    IN SubSeq(lst, start + 1, Len(lst))

\* a query that returns the oldest entries, `state.activity_log[:50]`
get_activity_log_Oldest ==
    SubSeq(activity_log, 1, IF Len(activity_log) < LogWindow THEN Len(activity_log)
                            ELSE LogWindow)

\* get_activity_log: `state.activity_log[-50:]`
get_activity_log == LastSlice(activity_log, LogWindow)

\* a call of send_log is made, up to its broadcast
LogCall ==
    /\ Len(activity_log) + Handlers < MaxLogged
    /\ Handlers < MaxHandlers
    /\ send_log("info")
    /\ UNCHANGED logs_reply

\* the broadcast of a call returns, and the call appends its entry
LogReturn ==
    /\ send_log_returns("info")
    /\ UNCHANGED logs_reply

\* GET /api/activity-log
GetActivityLog ==
    /\ logs_reply' = get_activity_log
    /\ UNCHANGED <<activity_log, logging, sent>>

LogNext ==
    \/ LogCall
       /\ UNCHANGED <<workflow_running, paused, confirmation_event, requirement,
                      modified_files, current_step, step_data, tasks, ready, waiters,
                      last_request, mvars, avars, cvars>>
    \/ LogReturn
       /\ UNCHANGED <<workflow_running, paused, confirmation_event, requirement,
                      modified_files, current_step, step_data, tasks, ready, waiters,
                      last_request, mvars, avars, cvars>>
    \/ GetActivityLog
       /\ UNCHANGED <<workflow_running, paused, confirmation_event, requirement,
                      modified_files, current_step, step_data, tasks, ready, waiters,
                      last_request, mvars, avars, cvars>>

(* ------------------------------------------------------------------ Spec *)
Next ==
    \/ \E req \in RequirementInputs : SubmitRequirement(req) /\ UNCHANGED <<mvars, avars, cvars, qvars>>
    \/ \E t \in Tasks : Start(t) /\ UNCHANGED <<mvars, avars, cvars, qvars>>
    \/ \E t \in Tasks : InProgress(t) /\ UNCHANGED <<mvars, avars, cvars, qvars>>
    \/ \E t \in Tasks, level \in Levels : ExecLog(t, level) /\ UNCHANGED <<mvars, avars, cvars, qvars>>
    \/ \E t \in Tasks : ExecFile(t) /\ UNCHANGED <<mvars, avars, cvars, qvars>>
    \/ \E t \in Tasks : ExecComplete(t) /\ UNCHANGED <<mvars, avars, cvars, qvars>>
    \/ \E t \in Tasks : ExecRaise(t) /\ UNCHANGED <<mvars, avars, cvars, qvars>>
    \/ \E t \in Tasks : Closing(t) /\ UNCHANGED <<mvars, avars, cvars, qvars>>
    \/ \E t \in Tasks : Return(t) /\ UNCHANGED <<mvars, avars, cvars, qvars>>
    \/ \E t \in Tasks : ErrorBroadcast(t) /\ UNCHANGED <<mvars, avars, cvars, qvars>>
    \/ \E t \in Tasks : ErrorBreak(t) /\ UNCHANGED <<mvars, avars, cvars, qvars>>
    \/ \E t \in Tasks : WaitForConfirmation(t) /\ UNCHANGED <<mvars, avars, cvars, qvars>>
    \/ \E t \in Tasks : Wake(t) /\ UNCHANGED <<mvars, avars, cvars, qvars>>
    \/ \E t \in Tasks : CompleteLog(t) /\ UNCHANGED <<mvars, avars, cvars, qvars>>
    \/ \E t \in Tasks : CompleteReset(t) /\ UNCHANGED <<mvars, avars, cvars, qvars>>
    \/ ConfirmStep /\ UNCHANGED <<mvars, avars, cvars, qvars>>
    \/ StopWorkflow /\ UNCHANGED <<mvars, avars, cvars, qvars>>
    \/ \E stepId \in StepIdInputs : RestartStep(stepId) /\ UNCHANGED <<mvars, avars, cvars, qvars>>
    \/ \E level \in HandlerLevels : SendLogReturns(level) /\ UNCHANGED <<mvars, avars, cvars, qvars>>
    \/ ModifyStep /\ UNCHANGED <<mvars, avars, cvars, qvars>>

\* The runs under the conditions of a run that completes: no step raises, no
\* stop_workflow, restart_step or modify_step is sent.  Submissions and
\* confirm_step may be sent at any time; the observer
\* is bound to send one for each confirmation request it has received (from
\* the moment the broadcast of the request has begun): ObserverConfirm is the
\* confirm_step that is still owed.  A confirm_step handled while the request
\* was being broadcast has answered it: as long as it is the last request the
\* server has handled, nothing is owed.
ObserverConfirm ==
    /\ \E t \in Tasks : tasks[t].pc \in {"confirmation_sent", "waiting"}
    /\ last_request # "confirm_step:broadcasting"
    /\ ConfirmStep

\* the steps of the event loop for task t when no step raises
TaskStep(t) ==
    \/ Start(t)
    \/ InProgress(t)
    \/ \E op \in Ops \ {"raise"} : Exec(t, op)
    \/ Closing(t)
    \/ Return(t)
    \/ WaitForConfirmation(t)
    \/ Wake(t)
    \/ CompleteLog(t)
    \/ CompleteReset(t)

LiveNext ==
    \/ \E req \in RequirementInputs : SubmitRequirement(req) /\ UNCHANGED <<mvars, avars, cvars, qvars>>
    \/ \E t \in Tasks : TaskStep(t) /\ UNCHANGED <<mvars, avars, cvars, qvars>>
    \/ ConfirmStep /\ UNCHANGED <<mvars, avars, cvars, qvars>>

\* the event loop runs every task that is ready, every broadcast returns, and
\* the observer sends the confirm_step it owes
Fairness ==
    /\ \A t \in Tasks : WF_vars(TaskStep(t))
    /\ WF_vars(ObserverConfirm)

\* the state after the modules are loaded
Startup == Init /\ ManagerInit /\ AgentInit /\ ResponsesInit /\ LogInit

Spec == Startup /\ [][Next]_vars

\* the ConnectionManager, the spec store and the confidence, each by itself
ManagerSpec == Startup /\ [][ManagerNext]_mvars
AgentSpec == Startup /\ [][AgentNext]_avars
ConfidenceSpec == Startup /\ [][ConfidenceNext]_cvars
LogSpec == Startup /\ [][LogNext]_lvars

\* the runs under fair scheduling
LiveSpec == Startup /\ [][LiveNext]_vars /\ Fairness

TypeOK ==
    /\ workflow_running \in BOOLEAN /\ paused \in BOOLEAN
    /\ confirmation_event \in BOOLEAN
    /\ Len(activity_log) + Appending <= MaxLog
    /\ (waiters # <<>>) => ~confirmation_event

(* ---------------------------------------------------------------- claims *)
\* a run_workflow task that has begun to run and has not ended
Running(t) == tasks[t].pc \notin {"none", "created"}

\* a task inside the while loop of run_workflow
InLoop(pc) ==
    pc \in {"step_log", "in_progress", "body_log", "file_modified", "complete",
            "closing_log", "confirmation_sent", "waiting", "woken", "error_update",
            "error_sent"}

\* a task between the in-progress message and the awaiting-confirmation
\* message of the step it executes
Between(t) ==
    tasks[t].pc \in {"in_progress", "body_log", "file_modified", "complete", "closing_log"}

\* the step_update and awaiting-confirmation messages of a broadcast
StepMessages(q) == SelectSeq(q, LAMBDA m : m.type \in {"step_update", "confirmation_request"})

\* C1: at most one run_workflow task is alive at any time: two loops never
\* execute steps or wait at the confirmation gate concurrently, also when two
\* submissions arrive back to back or a submission follows a stop.
C1_SingleFlight == Cardinality({t \in Tasks : Running(t)}) <= 1

\* C2: a submission made while workflow_running is true fails with the
\* already-running error, creates no task, broadcasts nothing and leaves
\* running, paused, currentStep, requirement, stepOutputs and the log unchanged.
C2_RejectedWhileRunning ==
    [][\A req \in RequirementInputs :
          (SubmitRequirement(req) /\ workflow_running)
              => /\ last_request' = "submit:already_running"
                 /\ sent' = <<>>
                 /\ UNCHANGED <<workflow_running, paused, confirmation_event, requirement,
                                activity_log, modified_files, current_step, step_data,
                                tasks, ready, waiters, logging>>]_vars

\* a submission has been rejected while a loop was running
C2_Witness ==
    /\ last_request = "submit:already_running"
    /\ workflow_running
    /\ \E t \in Tasks : Running(t)

\* C3: the gate of step k is released only by a confirm_step or restart_step
\* received after step k's awaiting-confirmation message: a confirm_step
\* received while step k is still executing does not release the gate of
\* step k, and one confirm_step releases the gate of at most one step.
C3_HumanGating ==
    [][ConfirmStep =>
          /\ \A t, u \in Tasks :
                (/\ tasks[t].pc = "waiting"
                 /\ Executing(u)
                 /\ tasks[u].step_id = tasks[t].step_id) => tasks'[t].pc = "waiting"
          /\ Cardinality({tasks[t].step_id : t \in Range(waiters)}) <= 1]_vars

\* C4: the messages of one execution of step k are broadcast in the order
\* in-progress, complete, awaiting-confirmation, and no step_update or
\* awaiting-confirmation message of another step is broadcast between the
\* in-progress message and the awaiting-confirmation message of step k.
C4_BroadcastOrder ==
    [][\A t \in Tasks :
          /\ InProgress(t) => sent' = <<StepUpdate(tasks[t].step_id, "in-progress")>>
          /\ ExecComplete(t)
                => /\ Between(t)
                   /\ sent' = <<StepUpdate(tasks[t].step_id, "complete")>>
          /\ ((Closing(t) \/ Return(t)) /\ tasks'[t].pc = "confirmation_sent")
                => sent' = <<ConfirmationRequest(tasks[t].step_id)>>
          /\ Between(t) =>
                \A i \in 1..Len(StepMessages(sent')) :
                    StepMessages(sent')[i].stepId = tasks[t].step_id]_vars

\* C5: when stop_workflow is received while the loop is blocked at the gate
\* of step k, the loop exits when it resumes: it broadcasts nothing, and it
\* leaves running = false, paused = true and currentStep where it was.
C5_StopAtGate ==
    [][\A t \in Tasks :
          (Wake(t) /\ last_request = "stop_workflow:gate")
              => /\ sent' = <<>>
                 /\ Cardinality({u \in Tasks : tasks'[u].pc # "none"})
                        = Cardinality(AliveTasks) - 1
                 /\ ~workflow_running' /\ paused'
                 /\ current_step' = current_step]_vars

\* C6: after the loop of a run has exited at step k (stop or failure), a
\* restart_step(j) with j in 1..N sets running = true, paused = false and
\* leaves a loop that executes step j, without a new submission.
C6_RestartAfterExit ==
    [][\A j \in Steps :
          (/\ RestartStep(j)
           /\ AliveTasks = {} /\ ~workflow_running
           /\ current_step \in Steps /\ requirement # EmptyRequirement)
              => /\ workflow_running' /\ ~paused'
                 /\ \E t \in Tasks : tasks'[t].pc # "none"]_vars

\* C7: after a restart_step(k) received during a run, the next step the loop
\* starts executing is step k: resuming from the gate it begins step k and
\* does not advance to k+1.
C7_RestartRedirects ==
    [][\A t \in Tasks :
          (Wake(t) /\ last_request = "restart_step" /\ current_step \in Steps)
              => /\ tasks'[t].pc = "step_log"
                 /\ tasks'[t].step_id = current_step]_vars

\* C8: a restart_step whose stepId is not an integer in 1..N is rejected: it
\* leaves currentStep, running and paused unchanged and does not signal the
\* gate.
C8_InvalidStepIdRejected ==
    [][\A stepId \in StepIdInputs \ Steps :
          RestartStep(stepId)
              => UNCHANGED <<current_step, workflow_running, paused, confirmation_event,
                             tasks, ready, waiters>>]_vars

\* C9: a confirm_step received while workflow_running is false is a no-op: it
\* broadcasts nothing, leaves running, paused, currentStep, requirement,
\* stepOutputs and the log unchanged and releases no gate wait, neither the
\* wait of a loop that is blocked at the gate when it arrives (the tasks, the
\* ready queue and the waiters stay as they are) nor a later one (every
\* wait_for_confirmation blocks until a later signal).
C9_IdleConfirm ==
    [][/\ (ConfirmStep /\ ~workflow_running)
              => /\ sent' = <<>>
                 /\ UNCHANGED <<workflow_running, paused, current_step, requirement,
                                step_data, activity_log, modified_files, logging>>
                 /\ UNCHANGED <<tasks, ready, waiters>>
       /\ \A t \in Tasks :
              WaitForConfirmation(t)
                  => /\ waiters' = Append(waiters, t)
                     /\ ~confirmation_event'
                     /\ sent' = <<>>
                     /\ UNCHANGED <<workflow_running, paused, current_step, activity_log>>]_vars

\* C10: when the body of step k raises, the error update of step k and then
\* workflow_error are broadcast, and stepOutputs and currentStep are not
\* written; then running becomes false, the loop is left without a wait at
\* the gate and without executing a step again, currentStep staying where it
\* was.
C10_StepError ==
    [][\A t \in Tasks :
          /\ ExecRaise(t)
                => /\ sent' = <<StepUpdate(tasks[t].step_id, "error")>>
                   /\ tasks'[t].pc = "error_update"
                   /\ UNCHANGED <<step_data, current_step>>
          /\ ErrorBroadcast(t)
                => /\ sent' = <<WorkflowError>>
                   /\ tasks'[t].pc = "error_sent"
                   /\ UNCHANGED <<step_data, current_step>>
          /\ ErrorBreak(t)
                => /\ ~workflow_running'
                   /\ UNCHANGED <<step_data, current_step>>
                   /\ StepMessages(sent') = <<>>
                   /\ Cardinality({u \in Tasks : InLoop(tasks'[u].pc)})
                          = Cardinality({u \in Tasks : InLoop(tasks[u].pc)}) - 1]_vars

\* the run of the last submission ended at step 1 without any later request:
\* its step 1 raised after it had announced the fallback
C10_Witness ==
    /\ last_request = "submit:started"
    /\ requirement # EmptyRequirement
    /\ AliveTasks = {}
    /\ ~workflow_running
    /\ current_step = 1
    /\ step_data[1] = NoData
    /\ LevelsOf(activity_log) = <<"info", "info">>

\* C11: when the confirmation of step N is received the loop broadcasts
\* workflow_complete once, then the log message of the completion, and
\* whatever control messages arrive during these broadcasts it ends with
\* running = false and currentStep = 0 without a further broadcast; a valid
\* submission made to the idle workflow is accepted, and a run that starts
\* from currentStep = 0 starts at step 1.
C11_Completion ==
    [][/\ \A t \in Tasks :
             /\ (/\ Wake(t) /\ ~Cancelled
                 /\ tasks[t].step_id = NumSteps /\ current_step = NumSteps)
                   => /\ sent' = <<WorkflowComplete>>
                      /\ tasks'[t].pc = "complete_sent"
             /\ CompleteLog(t)
                   => /\ sent' = <<LogMsg("success")>>
                      /\ tasks'[t].pc = "complete_log"
             /\ CompleteReset(t)
                   => /\ ~workflow_running' /\ current_step' = 0
                      /\ sent' = <<>>
                      /\ Cardinality({u \in Tasks : tasks'[u].pc # "none"})
                           = Cardinality(AliveTasks) - 1
             /\ (Start(t) /\ current_step = 0)
                   => /\ current_step' = 1
                      /\ tasks'[t].pc = "step_log" /\ tasks'[t].step_id = 1
       /\ \A req \in RequirementInputs :
             (/\ SubmitRequirement(req)
              /\ ~workflow_running /\ req >= MinRequirementLen)
                   => last_request' = "submit:started"]_vars

\* step N was confirmed and the loop has completed: nothing was received
\* after the confirm_step, and the loop has ended with currentStep = 0
C11_Witness ==
    /\ last_request = "confirm_step"
    /\ AliveTasks = {}
    /\ ~workflow_running
    /\ current_step = 0
    /\ step_data[NumSteps] # NoData
    /\ activity_log # <<>>
    /\ activity_log[Len(activity_log)].level = "success"

\* C12: currentStep is always in 0..N+1 and changes only from 0 to 1 when a
\* run starts, by +1 after a confirmed step, by a jump to a value in 1..N
\* caused by restart_step, or by the reset to 0 at completion.
C12_CurrentStepRange ==
    [][/\ current_step' \in 0..(NumSteps + 1)
       /\ current_step' # current_step
             => \/ current_step = 0 /\ current_step' = 1
                \/ current_step \in Steps /\ current_step' = current_step + 1
                \/ current_step' \in Steps /\ last_request' = "restart_step"
                \/ current_step' = 0]_vars

\* C13: stepOutputs[k] is written only by a successful execution of step k,
\* which stores its result over any prior entry; control messages, failed
\* executions and executions of other steps leave it unchanged.
C13_StepOutputs ==
    [][/\ \A t \in Tasks :
             ExecComplete(t)
                => /\ step_data'[tasks[t].step_id]
                         = StepResult(tasks[t].step_id, tasks[t].requirement)
                   /\ step_data'[tasks[t].step_id] # NoData
                   /\ \A k \in Steps \ {tasks[t].step_id} : step_data'[k] = step_data[k]
       /\ (\A t \in Tasks : ~ExecComplete(t)) => step_data' = step_data
       /\ DOMAIN step_data' = Steps]_vars

\* the body of a step has run to its end: its output is stored and the
\* task is in the broadcast of the complete update
C13_Witness ==
    \E t \in Tasks :
        /\ tasks[t].pc = "complete"
        /\ tasks[t].step_id \in Steps
        /\ step_data[tasks[t].step_id] = tasks[t].requirement
        /\ sent = <<StepUpdate(tasks[t].step_id, "complete")>>

\* C17: a submission shorter than the minimum length, made while no run is
\* active, is rejected with the validation error, starts no task and leaves
\* the workflow state unchanged.
C17_TooShortRejected ==
    [][\A req \in RequirementInputs :
          (SubmitRequirement(req) /\ ~workflow_running /\ req < MinRequirementLen)
              => /\ last_request' = "submit:too_short"
                 /\ sent' = <<>>
                 /\ UNCHANGED <<workflow_running, paused, confirmation_event, requirement,
                                activity_log, modified_files, current_step, step_data,
                                tasks, ready, waiters, logging>>]_vars

\* a too short submission has been rejected while the workflow was idle
C17_Witness ==
    /\ last_request = "submit:too_short"
    /\ ~workflow_running

\* C18: the loop never broadcasts an awaiting-confirmation message for, nor
\* waits at the gate of, a step id outside 1..N.
C18_UnknownStep ==
    \A t \in Tasks :
        tasks[t].pc \in {"confirmation_sent", "waiting", "woken"}
            => tasks[t].step_id \in Steps

\* a step of call b of broadcast that ends in the return of the call
Returns(b) == calls[b].pc # "returned" /\ calls'[b].pc = "returned"

\* a step of call b of broadcast that ends in a send_json
Sends(b) == calls'[b].pc = "sending" /\ calls'[b].i # calls[b].i

\* the number of times message b was sent to connection c
Copies(q, b) == Cardinality({k \in 1..Len(q) : q[k] = b})

\* C14: broadcast never raises to its caller: a send that fails is recorded,
\* removes nothing yet and the call goes on to the next connection; when the
\* call returns, every connection whose send failed during it has been
\* removed from active_connections, no other connection has been removed,
\* and, when no connection registered or unregistered during the call, every
\* connection that remains has received the message.
C14_BroadcastFailures ==
    [][\A b \in Calls :
        /\ Sends(b) =>
            LET c == active_connections[calls'[b].i] IN
            /\ active_connections' = active_connections
            /\ IF peer[c] = "open"
               THEN /\ received' = [received EXCEPT ![c] = Append(@, b)]
                    /\ calls'[b].disconnected = calls[b].disconnected
               ELSE /\ received' = received
                    /\ calls'[b].disconnected = Append(calls[b].disconnected, c)
        /\ Returns(b) =>
            LET failed == Range(calls[b].disconnected) IN
            /\ \A c \in failed : c \notin Range(active_connections')
            /\ \A c \in Range(active_connections) \ failed :
                    c \in Range(active_connections')
            /\ calls[b].undisturbed =>
                    \A c \in Range(active_connections') : Copies(received[c], b) = 1
      ]_mvars

\* Call 1 has returned and no other call was made: the send to a connection
\* whose client had gone away failed and the connection has been removed,
\* while a connection with a client is still registered and has received the
\* message.
C14_Witness ==
    /\ calls[1].pc = "returned"
    /\ \A b \in Calls \ {1} : calls[b].pc = "idle"
    /\ \E c \in Conns : /\ peer[c] = "closed"
                        /\ c \notin Range(active_connections)
                        /\ received[c] = <<>>
    /\ \E d \in Range(active_connections) : peer[d] = "open" /\ received[d] = <<1>>

\* C15: broadcast tolerates membership changes made while it is suspended
\* between sends: when a call returns, every connection that was registered
\* from the call to the return, and whose client has not gone away, has
\* received the message exactly once.  The connections of `pending` are those
\* registered from the call on that the iterator has not yielded; a connection
\* that it has yielded has been sent the message.
C15_ConcurrentMembership ==
    [][\A b \in Calls : Returns(b) =>
            /\ \A c \in calls[b].pending :
                    peer[c] = "open" => Copies(received'[c], b) = 1
            /\ \A c \in Conns : Copies(received'[c], b) <= 1
      ]_mvars

\* C16: a connection receives the messages of two broadcasts in the order in
\* which the broadcasts were called, also when the calls come from different
\* tasks.
C16_FifoPerConnection ==
    \A c \in Conns : \A j, k \in 1..Len(received[c]) :
        j < k => received[c][j] < received[c][k]

\* the outcomes of generate_stories_from_spec that are errors
GenerateErrors == {"ValueError: Spec not found", "ValueError: Spec must be approved before generating stories"}

\* C19: a product spec has status "draft" when create_draft_spec has stored
\* it; the status of a stored spec changes only from "draft" to "approved"
\* and only in approve_spec; generate_stories_from_spec returns stories only
\* for a stored spec whose status is "approved", and for a missing or draft
\* spec it fails with an error and leaves every stored spec as it is.
C19_SpecStatus ==
    [][\A spec_id \in SpecIds :
        /\ (agent_result'.call = "create_draft_spec" /\ agent_result'.spec_id = spec_id)
                => specs'[spec_id] = [status |-> "draft", generated_stories |-> 0]
        /\ (specs'[spec_id].status # specs[spec_id].status
              /\ ~(agent_result'.call = "create_draft_spec" /\ agent_result'.spec_id = spec_id))
                => /\ specs[spec_id].status = "draft"
                   /\ specs'[spec_id].status = "approved"
                   /\ agent_result'.call = "approve_spec"
                   /\ agent_result'.spec_id = spec_id
        /\ (agent_result'.call = "generate_stories_from_spec"
              /\ agent_result'.spec_id = spec_id)
                => IF specs[spec_id].status = "approved"
                   THEN /\ agent_result'.outcome = "stories"
                        /\ specs'[spec_id].status = "approved"
                        /\ specs'[spec_id].generated_stories > 0
                   ELSE /\ agent_result'.outcome \in GenerateErrors
                        /\ specs' = specs
      ]_avars

\* generate_stories_from_spec has just failed for a draft spec, which is
\* stored as it was created, while another spec, approved, holds the stories
\* generated from it.
C19_Witness ==
    /\ agent_result.call = "generate_stories_from_spec"
    /\ agent_result.outcome = "ValueError: Spec must be approved before generating stories"
    /\ specs[agent_result.spec_id] = [status |-> "draft", generated_stories |-> 0]
    /\ \E other \in SpecIds :
            specs[other] = [status |-> "approved", generated_stories |-> 1]

\* C20: the confidence of a response lies between 0 and 1: it is 0.5, plus
\* 0.2 when there is a story, plus 0.15 when the RAG context is not empty,
\* plus 0.15 when the fine-tuned context is not empty, and at most 1; with the
\* same stories it is strictly higher with a RAG context than without one,
\* be the fine-tuned context the same or absent in the response without.
C20_Confidence ==
    /\ \A k \in 1..Len(responses) :
        LET r == responses[k] IN
        /\ 0 <= r.confidence /\ r.confidence <= 100
        /\ r.confidence = Min(50 + (IF r.stories > 0 THEN 20 ELSE 0)
                                 + (IF r.rag_context > 0 THEN 15 ELSE 0)
                                 + (IF r.finetuned_context > 0 THEN 15 ELSE 0), 100)
    /\ \A j, k \in 1..Len(responses) :
        LET with == responses[j]
            without == responses[k] IN
        ( /\ (with.stories > 0) = (without.stories > 0)
          /\ with.rag_context > 0
          /\ without.rag_context = 0
          /\ without.finetuned_context \in {0, with.finetuned_context} )
            => with.confidence > without.confidence

\* The two responses of test_confidence_calculation: one made without any
\* context and one made with a RAG context only, each with one story.
C20_Witness ==
    /\ Len(responses) = 2
    /\ responses[1] = [stories |-> 1, rag_context |-> 0, finetuned_context |-> 0,
                       confidence |-> 70]
    /\ responses[2] = [stories |-> 1, rag_context |-> 1, finetuned_context |-> 0,
                       confidence |-> 85]

\* C21: a confirm_step sent by an observer that has received the confirmation
\* request of step k is never lost, also when the broadcast of the request is
\* still under way: the loop, the only one alive, that finds the event set by
\* this confirm_step when it reaches confirmation_event.wait() does not block.
C21_ConfirmNotLost ==
    [][\A t \in Tasks :
        ( /\ WaitForConfirmation(t)
          /\ AliveTasks = {t}
          /\ last_request = "confirm_step:broadcasting"
          /\ confirmation_event )
            => tasks'[t].pc # "waiting"
      ]_vars

\* C22: a stop_workflow received while step k executes aborts the run too: the
\* loop that reaches confirmation_event.wait() with the flags as the stop left
\* them, no request having followed, does not block at the gate of step k.
C22_StopWhileExecuting ==
    [][\A t \in Tasks :
        ( /\ WaitForConfirmation(t)
          /\ last_request = "stop_workflow:executing"
          /\ ~workflow_running /\ paused )
            => tasks'[t].pc # "waiting"
      ]_vars

\* C23: workflow_running is TRUE only while a run_workflow task exists.
C23_RunningNeedsTask == (AliveTasks = {}) => ~workflow_running

\* C28: paused implies not workflow_running.
C28_PausedNotRunning == paused => ~workflow_running

\* a stop_workflow has been handled while a loop was at the gate: paused is
\* TRUE and workflow_running is FALSE, and the loop has been woken
C28_Witness ==
    /\ paused /\ ~workflow_running
    /\ last_request = "stop_workflow:gate"
    /\ \E t \in Tasks : tasks[t].pc = "woken"

\* C24: the run of an accepted submission gets workflow_running = TRUE,
\* paused = FALSE and the submitted text as requirement, and the first step it
\* executes is step 1 when current_step was 0 and the step current_step
\* pointed to otherwise; step_data is retained.
C24_AcceptedRun ==
    [][\A t \in Tasks : Start(t) =>
            /\ requirement' = tasks[t].requirement
            /\ step_data' = step_data
            /\ workflow_running' /\ ~paused'
            /\ tasks'[t].pc = "step_log"
            /\ tasks'[t].step_id = (IF current_step = 0 THEN 1 ELSE current_step)
      ]_vars

\* C25: a task woken at the gate while workflow_running is FALSE or paused is
\* TRUE leaves the loop: current_step, workflow_running and paused keep their
\* values and the task executes no further step (it ends, or only announces
\* the completion).
C25_CancelledWake ==
    [][\A t \in Tasks :
        (Wake(t) /\ (~workflow_running \/ paused)) =>
            /\ current_step' = current_step
            /\ workflow_running' = workflow_running
            /\ paused' = paused
            /\ step_data' = step_data
            /\ \/ Cardinality(AliveTasks') = Cardinality(AliveTasks) - 1
               \/ tasks'[t].pc = "complete_sent"
      ]_vars

\* a stop_workflow reached the loop at its gate and the loop has ended
C25_Witness ==
    /\ last_request = "stop_workflow:gate"
    /\ AliveTasks = {}
    /\ paused /\ ~workflow_running
    /\ current_step \in Steps

\* C30: a modify_step that reaches the loop at the gate of step k makes the
\* loop end with workflow_running = FALSE, paused = FALSE and
\* current_step = k, without a further step and without a write to
\* step_data; after that a valid submission is accepted and its run starts
\* at step k.
C30_ModifyAtGate ==
    /\ [][\A t \in Tasks :
            (Wake(t) /\ last_request = "modify_step:gate") =>
                /\ ~workflow_running' /\ ~paused'
                /\ current_step' = tasks[t].step_id
                /\ step_data' = step_data
                /\ Cardinality(AliveTasks') = Cardinality(AliveTasks) - 1
         ]_vars
    /\ []( (last_request = "modify_step:gate" /\ AliveTasks = {}) =>
                /\ ~AlreadyRunning
                /\ ~TooShort(MinRequirementLen)
                /\ FirstStep(current_step) = current_step )

\* C27: the activity log is append-only: a step either leaves it as it is or
\* adds exactly one entry at its end, which every send_log does when its
\* broadcast has returned; and the reply of get_activity_log holds the last
\* LogWindow entries of the log (all of them when there are fewer), in the
\* order of the log.
C27_AppendOnly ==
    /\ [][\/ activity_log' = activity_log
          \/ /\ Len(activity_log') = Len(activity_log) + 1
             /\ SubSeq(activity_log', 1, Len(activity_log)) = activity_log
         ]_lvars
    /\ [][LogReturn => Len(activity_log') = Len(activity_log) + 1]_lvars
    /\ [][GetActivityLog =>
            LET n == Len(activity_log)
                k == Len(logs_reply')
            IN /\ k = (IF n < LogWindow THEN n ELSE LogWindow)
               /\ \A i \in 1..k : logs_reply'[i] = activity_log[n - k + i]
         ]_lvars

\* a reply that left out the oldest entries of a log longer than LogWindow
C27_Witness ==
    /\ Len(activity_log) > LogWindow
    /\ Len(logs_reply) = LogWindow
    /\ logs_reply[LogWindow] = activity_log[Len(activity_log)]
    /\ logs_reply[1] # activity_log[1]

\* C29: manager.disconnect for a connection that a broadcast has already
\* removed from active_connections leaves the list as it is and
\* websocket_endpoint ends without an exception.
C29_DisconnectAfterPrune ==
    [][\A c \in Conns :
        (Disconnect(c) /\ c \notin Range(active_connections)) =>
            /\ active_connections' = active_connections
            /\ peer'[c] = "gone"
      ]_mvars

\* C26: when no step fails, no stop, restart or modify message is sent and
\* every confirmation request is answered by one confirm_step of an observer
\* that received it, then under fair scheduling the run goes on to the end;
\* in particular the confirmation request of step 1 of a run that is the
\* only one leads to the execution of step 2.
C26_RunCompletes ==
    (\E t \in Tasks : /\ AliveTasks = {t}
                       /\ tasks[t].pc = "confirmation_sent" /\ tasks[t].step_id = 1
                       /\ LogHasRoom(1))
        ~> (\E t \in Tasks : Executing(t) /\ tasks[t].step_id = 2)
====
